---- MODULE Spec2Model ----
(***************************************************************************)
(* Model of examples/hexadecimal.py: the plugin module (its `translators`  *)
(* list), the class HexTranslator (its `name`) and the static method       *)
(* HexTranslator.basic_translate(num_bits, value), executed statement by   *)
(* statement in one Python frame per calling thread.                       *)
(*                                                                         *)
(* A Python str is modelled as a sequence of one-character strings.        *)
(***************************************************************************)
EXTENDS Integers, Sequences, FiniteSets, TLC

VARIABLES translators, name, pc, num_bits, value, i, h, exc, result, seen

vars == <<translators, name, pc, num_bits, value, i, h, exc, result, seen>>

(***************************************************************************)
(* Bounds of the model.                                                    *)
(***************************************************************************)
MaxLen == 3
MaxBits == 16
NumThreads == 2

Threads == 1..NumThreads
\* the thread of the single call of Spec
MainThread == CHOOSE t \in Threads : \A u \in Threads : t <= u

(***************************************************************************)
(* Characters and strings.                                                 *)
(***************************************************************************)
HexDigits == <<"0", "1", "2", "3", "4", "5", "6", "7", "8", "9",
               "a", "b", "c", "d", "e", "f">>

Alphabet == {"0", "1", "5", "9", "f", "x", "-", "+", "_", " "}

RECURSIVE StringsUpTo(_)
StringsUpTo(n) ==
    IF n = 0 THEN {<<>>}
    ELSE LET shorter == StringsUpTo(n - 1)
         IN  shorter \cup {Append(s, c) : s \in {x \in shorter : Len(x) = n - 1}, c \in Alphabet}

ExampleValues ==
    { <<"2", "5", "5">>, <<"1", "5">>, <<"a", "b", "c">>, <<"f", "f">>,
      <<"0", "x", "1", "f">>, <<"0", "b", "1", "0", "1">>,
      <<"1", "x", "z", "0">>, <<"-", "2", "5", "5">>, <<"+", "2", "5", "5">>,
      <<"\t", "9", "\n">>, <<"1", "_", "0", "0", "0">> }

Values == StringsUpTo(MaxLen) \cup ExampleValues

Widths == 1..MaxBits

ConcArgs ==
    { <<16, <<"2", "5", "5">>>>, <<4, <<"1", "5">>>>,
      <<8, <<"a", "b", "c">>>>, <<12, <<"0", "x", "1", "f">>>> }

(***************************************************************************)
(* int(value): CPython's str -> int conversion in base 10.                 *)
(***************************************************************************)
IsSpace(c) == c \in {" ", "\t", "\n", "\r", "\f"}

IsDigitBase16(c) == \E k \in 1..16 : HexDigits[k] = c

IsDigit(c) == \E k \in 1..10 : HexDigits[k] = c

DigitVal(c) == (CHOOSE k \in 1..16 : HexDigits[k] = c) - 1

RECURSIVE lstrip(_)
lstrip(s) == IF Len(s) > 0 /\ IsSpace(Head(s)) THEN lstrip(Tail(s)) ELSE s

RECURSIVE rstrip(_)
rstrip(s) ==
    IF Len(s) > 0 /\ IsSpace(s[Len(s)]) THEN rstrip(SubSeq(s, 1, Len(s) - 1)) ELSE s

strip(s) == rstrip(lstrip(s))

HasSign(s) == Len(s) > 0 /\ Head(s) \in {"+", "-"}

Unsigned(s) == IF HasSign(s) THEN Tail(s) ELSE s

\* Scan of the digit part: digits, with single underscores allowed only
\* between two digits.  prev is "start", "digit" or "underscore".
RECURSIVE ScanDigits(_, _, _)
ScanDigits(s, k, prev) ==
    IF k > Len(s) THEN prev = "digit"
    ELSE IF IsDigit(s[k]) THEN ScanDigits(s, k + 1, "digit")
    ELSE IF s[k] = "_" THEN prev = "digit" /\ ScanDigits(s, k + 1, "underscore")
    ELSE FALSE

RECURSIVE Accumulate(_, _, _)
Accumulate(s, k, acc) ==
    IF k > Len(s) THEN acc
    ELSE IF s[k] = "_" THEN Accumulate(s, k + 1, acc)
    ELSE Accumulate(s, k + 1, acc * 10 + DigitVal(s[k]))

\* TRUE iff int(v) raises ValueError
int_raises(v) == ~ScanDigits(Unsigned(strip(v)), 1, "start")

\* the value of int(v) when it does not raise
int(v) ==
    LET s == strip(v)
        m == Accumulate(Unsigned(s), 1, 0)
    IN  IF HasSign(s) /\ Head(s) = "-" THEN -m ELSE m

(***************************************************************************)
(* hex(i), the slice [2:], str.zfill(width) and the f-string.              *)
(***************************************************************************)
RECURSIVE HexMag(_)
HexMag(n) ==
    IF n < 16 THEN <<HexDigits[n + 1]>>
    ELSE HexMag(n \div 16) \o <<HexDigits[(n % 16) + 1]>>

hex(n) == IF n < 0 THEN <<"-", "0", "x">> \o HexMag(-n) ELSE <<"0", "x">> \o HexMag(n)

SliceFrom3(s) == SubSeq(s, 4, Len(s))

\* s[2:]
SliceFrom2(s) == SubSeq(s, 3, Len(s))

Zeros(n) == [k \in 1..n |-> "0"]

zfill_truncating(s, width) ==
    IF Len(s) >= width THEN SubSeq(s, Len(s) - width + 1, Len(s))
    ELSE Zeros(width - Len(s)) \o s

zfill(s, width) ==
    IF Len(s) >= width THEN s
    ELSE IF HasSign(s) THEN <<Head(s)>> \o Zeros(width - Len(s)) \o Tail(s)
    ELSE Zeros(width - Len(s)) \o s

\* f"0x{h.zfill(num_bits // 4)}"
FormatHex(hs, n) == <<"0", "x">> \o zfill(hs, n \div 4)

(***************************************************************************)
(* The two return statements and the except clause.                       *)
(***************************************************************************)
NormalKind == "Normal"

ExceptKindError == "Error"

ExceptKind == "Warn"

ExceptDisplayStripped(v) == strip(v)

ExceptDisplay(v) == v

HandlesTypeError(e) == e = "TypeError"

Handles(e) == e = "ValueError"

\* basic_translate run to completion in a frame of its own
basic_translate(n, v) ==
    IF int_raises(v) THEN <<ExceptDisplay(v), ExceptKind>>
    ELSE <<FormatHex(SliceFrom2(hex(int(v))), n), NormalKind>>

(***************************************************************************)
(* Frames: each thread reads its own arguments and locals.                 *)
(***************************************************************************)
ArgValueShared(t) == value[MainThread]

ArgValue(t) == value[t]

LocalHShared(t) == h[MainThread]

LocalH(t) == h[t]

(***************************************************************************)
(* State machine.                                                          *)
(***************************************************************************)
TypeOK ==
    /\ pc \in [Threads -> {"idle", "try", "hex", "fmt", "except", "done", "raised"}]
    /\ num_bits \in [Threads -> 0..(MaxBits + 1)]
    /\ exc \in [Threads -> {"None", "ValueError"}]
    /\ \A t \in Threads : Len(result[t]) \in {0, 2}

Frame(t, n, v) ==
    /\ pc' = [pc EXCEPT ![t] = "try"]
    /\ num_bits' = [num_bits EXCEPT ![t] = n]
    /\ value' = [value EXCEPT ![t] = v]
    /\ i' = [i EXCEPT ![t] = 0]
    /\ h' = [h EXCEPT ![t] = <<>>]
    /\ exc' = [exc EXCEPT ![t] = "None"]
    /\ result' = [result EXCEPT ![t] = <<>>]

ModuleInit ==
    /\ translators = <<"HexTranslator">>
    /\ name = "Hexadecimal (Python)"
    /\ seen = {}

IdleInit ==
    /\ pc = [t \in Threads |-> "idle"]
    /\ num_bits = [t \in Threads |-> 0]
    /\ value = [t \in Threads |-> <<>>]
    /\ i = [t \in Threads |-> 0]
    /\ h = [t \in Threads |-> <<>>]
    /\ exc = [t \in Threads |-> "None"]
    /\ result = [t \in Threads |-> <<>>]

\* the host has imported the module; no call is in progress
InitConc == ModuleInit /\ IdleInit

\* one call basic_translate(n, v) has just been entered by the main thread
Init ==
    /\ ModuleInit
    /\ \E n \in Widths, v \in Values :
        /\ pc = [t \in Threads |-> IF t = MainThread THEN "try" ELSE "idle"]
        /\ num_bits = [t \in Threads |-> IF t = MainThread THEN n ELSE 0]
        /\ value = [t \in Threads |-> IF t = MainThread THEN v ELSE <<>>]
        /\ i = [t \in Threads |-> 0]
        /\ h = [t \in Threads |-> <<>>]
        /\ exc = [t \in Threads |-> "None"]
        /\ result = [t \in Threads |-> <<>>]

\* the host calls basic_translate(n, v) on thread t
Call(t) ==
    /\ pc[t] = "idle"
    /\ \E a \in ConcArgs : Frame(t, a[1], a[2])
    /\ UNCHANGED <<translators, name, seen>>

\* int(value) inside the try block
TryInt(t) ==
    /\ pc[t] = "try"
    /\ IF int_raises(ArgValue(t))
       THEN /\ exc' = [exc EXCEPT ![t] = "ValueError"]
            /\ pc' = [pc EXCEPT ![t] = "except"]
            /\ i' = i
       ELSE /\ i' = [i EXCEPT ![t] = int(ArgValue(t))]
            /\ pc' = [pc EXCEPT ![t] = "hex"]
            /\ exc' = exc
    /\ UNCHANGED <<translators, name, num_bits, value, h, result, seen>>

\* h = hex(...)[2:]
HexSlice(t) ==
    /\ pc[t] = "hex"
    /\ h' = [h EXCEPT ![t] = SliceFrom2(hex(i[t]))]
    /\ pc' = [pc EXCEPT ![t] = "fmt"]
    /\ UNCHANGED <<translators, name, num_bits, value, i, exc, result, seen>>

\* return f"0x{h.zfill(num_bits // 4)}", surfer.ValueKind.Normal()
Format(t) ==
    /\ pc[t] = "fmt"
    /\ result' = [result EXCEPT ![t] = <<FormatHex(LocalH(t), num_bits[t]), NormalKind>>]
    /\ pc' = [pc EXCEPT ![t] = "done"]
    /\ UNCHANGED <<translators, name, num_bits, value, i, h, exc, seen>>

\* except ValueError: return value, surfer.ValueKind.Warn()
Except(t) ==
    /\ pc[t] = "except"
    /\ IF Handles(exc[t])
       THEN /\ result' = [result EXCEPT ![t] = <<ExceptDisplay(ArgValue(t)), ExceptKind>>]
            /\ exc' = [exc EXCEPT ![t] = "None"]
            /\ pc' = [pc EXCEPT ![t] = "done"]
       ELSE /\ pc' = [pc EXCEPT ![t] = "raised"]
            /\ UNCHANGED <<result, exc>>
    /\ UNCHANGED <<translators, name, num_bits, value, i, h, seen>>

\* the caller receives the (display, kind) pair
Return(t) ==
    /\ pc[t] = "done"
    /\ seen' = seen \cup {<<num_bits[t], value[t], result[t]>>}
    /\ pc' = [pc EXCEPT ![t] = "idle"]
    /\ UNCHANGED <<translators, name, num_bits, value, i, h, exc, result>>

Step(t) == TryInt(t) \/ HexSlice(t) \/ Format(t) \/ Except(t) \/ Return(t)

Next == Step(MainThread)

Spec == Init /\ [][Next]_vars

NextConc == \E t \in Threads : Call(t) \/ Step(t)

SpecConc == InitConc /\ [][NextConc]_vars

(***************************************************************************)
(* Vocabulary of the properties, stated independently of the conversion    *)
(* code above.                                                             *)
(***************************************************************************)
DecimalChars == {"0", "1", "2", "3", "4", "5", "6", "7", "8", "9"}

LowerHexChars == DecimalChars \cup {"a", "b", "c", "d", "e", "f"}

DecimalCharValue(c) ==
    CASE c = "0" -> 0 [] c = "1" -> 1 [] c = "2" -> 2 [] c = "3" -> 3 [] c = "4" -> 4
      [] c = "5" -> 5 [] c = "6" -> 6 [] c = "7" -> 7 [] c = "8" -> 8 [] c = "9" -> 9

HexCharValue(c) ==
    CASE c \in DecimalChars -> DecimalCharValue(c)
      [] c = "a" -> 10 [] c = "b" -> 11 [] c = "c" -> 12
      [] c = "d" -> 13 [] c = "e" -> 14 [] c = "f" -> 15

\* digits, optionally separated by single underscores
IsDigitGroup(b) ==
    /\ Len(b) > 0
    /\ b[1] \in DecimalChars
    /\ b[Len(b)] \in DecimalChars
    /\ \A k \in 1..Len(b) :
          \/ b[k] \in DecimalChars
          \/ (b[k] = "_" /\ b[k - 1] \in DecimalChars /\ b[k + 1] \in DecimalChars)

\* the part of v between a leading and b trailing whitespace characters
Core(v, a, b) == SubSeq(v, a + 1, Len(v) - b)

IsCoreOf(v, a, b) ==
    /\ a + b < Len(v)
    /\ \A k \in 1..a : IsSpace(v[k])
    /\ \A k \in (Len(v) - b + 1)..Len(v) : IsSpace(v[k])
    /\ ~IsSpace(v[a + 1])
    /\ ~IsSpace(v[Len(v) - b])

\* v is an integer-valued string: a base-10 literal with an optional sign,
\* possibly surrounded by whitespace
IsIntegerString(v) ==
    \E a \in 0..Len(v), b \in 0..Len(v) :
        /\ IsCoreOf(v, a, b)
        /\ LET c == Core(v, a, b)
           IN  IsDigitGroup(IF c[1] \in {"+", "-"} THEN SubSeq(c, 2, Len(c)) ELSE c)

RECURSIVE SumDigits(_, _)
SumDigits(ds, base) ==
    IF Len(ds) = 0 THEN 0
    ELSE HexCharValue(ds[1]) * base ^ (Len(ds) - 1) + SumDigits(Tail(ds), base)

\* the integer denoted by an integer-valued string
DenotedInt(v) ==
    LET ds == SelectSeq(v, LAMBDA c : c \in DecimalChars)
        m == SumDigits(ds, 10)
    IN  IF \E k \in 1..Len(v) : v[k] = "-" THEN -m ELSE m

\* a sequence of lowercase hex characters read as a base-16 number
ReadHex(s) == SumDigits(s, 16)

IsLowerHex(s) == Len(s) >= 1 /\ \A k \in 1..Len(s) : s[k] \in LowerHexChars

\* number of significant hex digits of m >= 0 (1 for zero)
SigHexDigits(m) == CHOOSE d \in 1..8 : m < 16 ^ d /\ (d = 1 \/ m >= 16 ^ (d - 1))

Max(a, b) == IF a >= b THEN a ELSE b

PadLeft(s, w) == IF Len(s) >= w THEN s ELSE [k \in 1..(w - Len(s)) |-> "0"] \o s

\* the hexadecimal representation of an integer, signed like Python's format(m, "x")
HexRepr(m) == IF m < 0 THEN <<"-">> \o HexMag(-m) ELSE HexMag(m)

Done(t) == pc[t] = "done"

Display(t) == result[t][1]

Kind(t) == result[t][2]

HexPart(t) == SubSeq(Display(t), 3, Len(Display(t)))

HasPrefix0x(t) == Len(Display(t)) >= 2 /\ SubSeq(Display(t), 1, 2) = <<"0", "x">>

NonNegative(t) == IsIntegerString(value[t]) /\ DenotedInt(value[t]) >= 0

\* the conversion code and the declarative grammar accept the same strings
\* and agree on the integer
ParserAgreesWithGrammar ==
    \A t \in Threads : pc[t] # "idle" =>
        /\ int_raises(value[t]) <=> ~IsIntegerString(value[t])
        /\ IsIntegerString(value[t]) => int(value[t]) = DenotedInt(value[t])

(***************************************************************************)
(* C1: for every integer-valued string v (negative and signed ones         *)
(* included) and bit width n >= 1 the call returns                         *)
(* ("0x" + hex representation of v zero-padded to n div 4 chars, Normal).  *)
(* Fails for negative v: hex(-255)[2:] is "xff", not the hex digits.       *)
(***************************************************************************)
C1_HexOfEveryInteger ==
    \A t \in Threads : Done(t) /\ IsIntegerString(value[t]) =>
        result[t] = << <<"0", "x">> \o PadLeft(HexRepr(DenotedInt(value[t])), num_bits[t] \div 4),
                       "Normal" >>

(***************************************************************************)
(* C2: for every non-numeric string v and bit width n the call returns     *)
(* (v, Warn), the display being the input character for character.         *)
(***************************************************************************)
C2_NonNumericPassThrough ==
    \A t \in Threads : Done(t) /\ ~IsIntegerString(value[t]) =>
        result[t] = <<value[t], "Warn">>

C2_Witness ==
    /\ Done(MainThread)
    /\ num_bits[MainThread] = 8
    /\ value[MainThread] = <<"a", "b", "c">>
    /\ result[MainThread] = << <<"a", "b", "c">>, "Warn" >>

Deterministic(S) == \A a, b \in S : a[1] = b[1] /\ a[2] = b[2] => a[3] = b[3]

C4_StatelessPure ==
    [][ /\ translators' = translators
        /\ name' = name
        /\ \A t \in Threads : pc[t] # "idle" => num_bits'[t] = num_bits[t] /\ value'[t] = value[t]
        /\ \A t \in Threads : Done(t)' => Deterministic(seen' \cup {<<num_bits'[t], value'[t], result'[t]>>})
      ]_vars

C4_Witness ==
    \E t \in Threads :
        /\ Done(t)
        /\ \E e \in seen : e[1] = num_bits[t] /\ e[2] = value[t]
        /\ \E e \in seen : e[2] # value[t]

(***************************************************************************)
(* C5: under any interleaving of any number of concurrent calls, each call *)
(* returns exactly the result it returns when run alone.                   *)
(***************************************************************************)
C5_ConcurrentSameAsAlone ==
    \A t \in Threads : Done(t) => result[t] = basic_translate(num_bits[t], value[t])

C5_Witness ==
    \E t, u \in Threads :
        /\ t # u
        /\ Done(t)
        /\ pc[u] \in {"hex", "fmt", "except"}
        /\ value[u] # value[t]

(***************************************************************************)
(* C6: whenever the kind is Normal the display is "0x" followed by one or  *)
(* more characters of 0-9a-f.  Fails for negative values, whose display    *)
(* contains a second "x".                                                  *)
(***************************************************************************)
C6_NormalIsLowerHex ==
    \A t \in Threads : Done(t) /\ Kind(t) = "Normal" =>
        HasPrefix0x(t) /\ IsLowerHex(HexPart(t))

(***************************************************************************)
(* C7: a string that is a number only in another base or notation (it      *)
(* contains a character that is no decimal digit, sign, underscore or      *)
(* whitespace, such as "ff", "0x1f", "0b101", "1xz0") is returned          *)
(* unchanged with kind Warn.                                               *)
(***************************************************************************)
HasForeignChar(v) ==
    \E k \in 1..Len(v) : v[k] \notin DecimalChars \cup {"+", "-", "_"} /\ ~IsSpace(v[k])

C7_Base10Only ==
    \A t \in Threads : Done(t) /\ HasForeignChar(value[t]) =>
        result[t] = <<value[t], "Warn">>

C7_Witness ==
    /\ Done(MainThread)
    /\ value[MainThread] = <<"0", "x", "1", "f">>
    /\ Kind(MainThread) = "Warn"
    /\ Display(MainThread) = value[MainThread]

(***************************************************************************)
(* C8: the kind is Normal or Warn, never Error; Normal exactly when the    *)
(* integer parse succeeded, Warn exactly when it failed; a display that    *)
(* differs from the input is never paired with Warn.                       *)
(***************************************************************************)
C8_KindMatchesParse ==
    \A t \in Threads : Done(t) =>
        /\ Kind(t) \in {"Normal", "Warn"}
        /\ Kind(t) = "Normal" <=> IsIntegerString(value[t])
        /\ Kind(t) = "Warn" <=> ~IsIntegerString(value[t])
        /\ Display(t) # value[t] => Kind(t) # "Warn"

C8_Witness ==
    /\ Done(MainThread)
    /\ IsIntegerString(value[MainThread])
    /\ Kind(MainThread) = "Normal"
    /\ Display(MainThread) # value[MainThread]

(***************************************************************************)
(* C9: for a non-negative integer string v and width n the number of       *)
(* characters after "0x" is max(d, n div 4), d the number of significant   *)
(* hex digits of v: padding never truncates.                               *)
(***************************************************************************)
C9_PaddingNeverTruncates ==
    \A t \in Threads : Done(t) /\ NonNegative(t) =>
        /\ HasPrefix0x(t)
        /\ Len(HexPart(t)) = Max(SigHexDigits(DenotedInt(value[t])), num_bits[t] \div 4)

C9_Witness ==
    /\ Done(MainThread)
    /\ NonNegative(MainThread)
    /\ num_bits[MainThread] \div 4 >= 1
    /\ SigHexDigits(DenotedInt(value[MainThread])) > num_bits[MainThread] \div 4
    /\ Len(HexPart(MainThread)) = SigHexDigits(DenotedInt(value[MainThread]))

(***************************************************************************)
(* C10: for a non-negative integer string v the characters after "0x",     *)
(* read as a base-16 number, give back the integer denoted by v.           *)
(***************************************************************************)
C10_RoundTrip ==
    \A t \in Threads : Done(t) /\ NonNegative(t) =>
        /\ HasPrefix0x(t)
        /\ IsLowerHex(HexPart(t))
        /\ ReadHex(HexPart(t)) = DenotedInt(value[t])

C10_Witness ==
    /\ Done(MainThread)
    /\ NonNegative(MainThread)
    /\ DenotedInt(value[MainThread]) > 15
    /\ Len(HexPart(MainThread)) > SigHexDigits(DenotedInt(value[MainThread]))

====
